---- MODULE Spec2Model ----
(***************************************************************************)
(* A model of the tangled dependency viewer: the Module / Dependency /     *)
(* DependencyGraph types, the line parser, and the four renderers.         *)
(*                                                                         *)
(* Go strings are sequences of byte values, so that comparison, splitting  *)
(* and trimming are computed the way the Go runtime computes them.         *)
(***************************************************************************)
EXTENDS Integers, Sequences, FiniteSets, TLC

VARIABLES
    dg,            \* the *DependencyGraph under use, or NoGraph
    op,            \* the operation that ran last
    arg,           \* the arguments that operation was called with
    ret,           \* what that operation returned (or wrote to its sink)
    env,           \* what the callers pass: modules, edge count, writers
    input,         \* ParseGraph: the lines the reader holds
    pc,            \* ParseGraph: position in the function
    lineNumber,    \* ParseGraph: lineNumber
    dependencies,  \* ParseGraph: the accumulated []Dependency
    perr,          \* ParseGraph: the returned error, or NoError
    token,         \* parseModule: the token under test
    output         \* runRoot: what the output destination holds

vars == <<dg, op, arg, ret, env, input, pc, lineNumber, dependencies, perr,
          token, output>>

parserVars == <<input, pc, lineNumber, dependencies, perr>>

(***************************************************************************)
(* Bounds of the model.                                                    *)
(***************************************************************************)
MaxDeps == 2

MaxLines == 3

MaxTokenLen == 4

MaxTreeDeps == 3

MaxFailAt == 8

MaxIDLen == 4

MaxLabelLen == 4

(***************************************************************************)
(* Bytes and strings.                                                      *)
(***************************************************************************)
Ch == [tab |-> 9, sp |-> 32, quote |-> 34, dash |-> 45, dot |-> 46,
       slash |-> 47, one |-> 49, at |-> 64, backslash |-> 92,
       underscore |-> 95, a |-> 97, b |-> 98]

NoGraph == [nil |-> TRUE]

NoError == [kind |-> "nil"]

None == [none |-> TRUE]

EmptyMap == [k \in {} |-> <<>>]

\* Go's < on strings: bytewise lexicographic order.
RECURSIVE Less(_, _)
Less(s, t) ==
    IF s = <<>> THEN t # <<>>
    ELSE IF t = <<>> THEN FALSE
    ELSE IF Head(s) # Head(t) THEN Head(s) < Head(t)
    ELSE Less(Tail(s), Tail(t))

\* m[k] = v on a Go map.
MapPut(m, k, v) == [x \in DOMAIN m \cup {k} |-> IF x = k THEN v ELSE m[x]]

\* The orders in which a range over a map with key set S may visit its keys.
Perms(S) ==
    {f \in [1..Cardinality(S) -> S] : \A i, j \in DOMAIN f : i # j => f[i] # f[j]}

(***************************************************************************)
(* types.go                                                                *)
(***************************************************************************)
Module(path, version) == [Path |-> path, Version |-> version]

\* A String that writes the '@' also before an empty version.
StringAlwaysAt(m) == m.Path \o <<Ch.at>> \o m.Version

String(m) ==
    IF m.Version = <<>> THEN m.Path ELSE m.Path \o <<Ch.at>> \o m.Version

Dependency(from, to) == [From |-> from, To |-> to]

NewDependencyGraph(mainModule) ==
    [MainModule |-> mainModule, Dependencies |-> <<>>, tree |-> EmptyMap]

\* An AddDependency that drops an edge the graph already holds.
AddDependencyDedup(g, from, to) ==
    IF \E i \in DOMAIN g.Dependencies : g.Dependencies[i] = Dependency(from, to)
    THEN [g EXCEPT !.tree = EmptyMap]
    ELSE [g EXCEPT !.Dependencies = Append(@, Dependency(from, to)),
                   !.tree = EmptyMap]

\* An AddDependency that puts the new edge in front of the others.
AddDependencyInFront(g, from, to) ==
    [g EXCEPT !.Dependencies = <<Dependency(from, to)>> \o @,
              !.tree = EmptyMap]

\* An AddDependency that appends and leaves the cached tree in place.
AddDependencyKeepTree(g, from, to) ==
    [g EXCEPT !.Dependencies = Append(@, Dependency(from, to))]

AddDependency(g, from, to) ==
    [g EXCEPT !.Dependencies = Append(@, Dependency(from, to)),
              !.tree = EmptyMap]

RECURSIVE GetDirectDependenciesLoop(_, _, _)
GetDirectDependenciesLoop(deps, moduleStr, acc) ==
    IF deps = <<>> THEN acc
    ELSE GetDirectDependenciesLoop(
             Tail(deps), moduleStr,
             IF String(Head(deps).From) = moduleStr
             THEN Append(acc, Head(deps).To) ELSE acc)

\* GetDirectDependencies matching the From module field by field.
GetDirectDependenciesByStruct(g, module) ==
    LET mine == SelectSeq(g.Dependencies, LAMBDA d : d.From = module)
    IN [i \in 1..Len(mine) |-> mine[i].To]

GetDirectDependencies(g, module) ==
    GetDirectDependenciesLoop(g.Dependencies, String(module), <<>>)

\* The moduleSet map of GetAllModules: a later write to a key replaces the
\* module stored under it.
RECURSIVE moduleSetLoop(_, _)
moduleSetLoop(moduleSet, deps) ==
    IF deps = <<>> THEN moduleSet
    ELSE LET dep == Head(deps)
             s1 == MapPut(moduleSet, String(dep.From), dep.From)
             s2 == MapPut(s1, String(dep.To), dep.To)
         IN moduleSetLoop(s2, Tail(deps))

moduleSet(g) ==
    moduleSetLoop(MapPut(EmptyMap, String(g.MainModule), g.MainModule),
                  g.Dependencies)

\* Insert module m into a slice already ordered by String().
RECURSIVE InsertModule(_, _)
InsertModule(m, sorted) ==
    IF sorted = <<>> THEN <<m>>
    ELSE IF Less(String(m), String(Head(sorted))) THEN <<m>> \o sorted
    ELSE <<Head(sorted)>> \o InsertModule(m, Tail(sorted))

RECURSIVE SortModulesFrom(_, _)
SortModulesFrom(modules, sorted) ==
    IF modules = <<>> THEN sorted
    ELSE SortModulesFrom(Tail(modules), InsertModule(Head(modules), sorted))

\* A GetAllModules that forgets the sort.Slice call.
SortModulesUnsorted(modules) == modules

\* sort.Slice(modules, String(i) < String(j)).
SortModules(modules) == SortModulesFrom(modules, <<>>)

\* GetAllModules, with the order in which the range over moduleSet visits
\* its keys as a parameter.
GetAllModules(g, order) ==
    LET set == moduleSet(g)
        modules == [i \in 1..Len(order) |-> set[order[i]]]
    IN SortModules(modules)

\* What a call of GetAllModules may return: one result per range order.
GetAllModulesResults(g) ==
    {GetAllModules(g, order) : order \in Perms(DOMAIN moduleSet(g))}

RECURSIVE buildTreeLoop(_, _)
buildTreeLoop(tree, deps) ==
    IF deps = <<>> THEN tree
    ELSE LET fromStr == String(Head(deps).From)
             toStr == String(Head(deps).To)
             t1 == IF fromStr \in DOMAIN tree THEN tree
                   ELSE MapPut(tree, fromStr, <<>>)
         IN buildTreeLoop(MapPut(t1, fromStr, Append(t1[fromStr], toStr)),
                          Tail(deps))

\* A buildTree that files every edge under its To.
buildTreeReversed(g) ==
    IF DOMAIN g.tree # {} THEN g
    ELSE [g EXCEPT !.tree =
             buildTreeLoop(g.tree,
                           [i \in DOMAIN g.Dependencies |->
                               Dependency(g.Dependencies[i].To,
                                          g.Dependencies[i].From)])]

buildTree(g) ==
    IF DOMAIN g.tree # {} THEN g
    ELSE [g EXCEPT !.tree = buildTreeLoop(g.tree, g.Dependencies)]

\* GetTree: the graph after the call, whose tree field is the map returned.
GetTree(g) == buildTree(g)

(***************************************************************************)
(* renderer.go                                                             *)
(***************************************************************************)
\* strings.ReplaceAll(s, old, new) for a one-byte old.
RECURSIVE ReplaceAllByte(_, _, _)
ReplaceAllByte(s, old, new) ==
    IF s = <<>> THEN <<>>
    ELSE (IF Head(s) = old THEN new ELSE <<Head(s)>>)
             \o ReplaceAllByte(Tail(s), old, new)

\* Insert string x into a slice of strings already in ascending order.
RECURSIVE InsertString(_, _)
InsertString(x, sorted) ==
    IF sorted = <<>> THEN <<x>>
    ELSE IF Less(x, Head(sorted)) THEN <<x>> \o sorted
    ELSE <<Head(sorted)>> \o InsertString(x, Tail(sorted))

RECURSIVE SortStringsFrom(_, _)
SortStringsFrom(xs, sorted) ==
    IF xs = <<>> THEN sorted
    ELSE SortStringsFrom(Tail(xs), InsertString(Head(xs), sorted))

\* A sort.Strings that leaves the slice as it is.
SortStringsKeep(xs) == xs

\* sort.Strings(xs): the slice's backing array afterwards.
SortStrings(xs) == SortStringsFrom(xs, <<>>)

\* The connectors and indentation units written by renderNode, in ASCII:
\* Branch is the tee connector, Corner the elbow connector, Bar the vertical
\* bar followed by three spaces.
Branch == "|-- "

Corner == "+-- "

Bar == "|   "

RootIndent == "  "

Indent == "    "

\* An io.Writer: sink.failAt is the Write call that fails (0: none does),
\* out the lines written, calls the number of Write calls made, err the
\* error the last call returned.
WriteError == [kind |-> "write error"]

Reliable == [failAt |-> 0]

NewWriter(sink) ==
    [sink |-> sink, out |-> <<>>, calls |-> 0, err |-> NoError]

Write(w, line) ==
    IF w.sink.failAt = w.calls + 1
    THEN [w EXCEPT !.calls = @ + 1, !.err = WriteError]
    ELSE [w EXCEPT !.calls = @ + 1, !.err = NoError, !.out = Append(@, line)]

\* A run of Fprintf calls, each followed by "if err != nil { return err }".
RECURSIVE WriteLines(_, _)
WriteLines(w, lines) ==
    IF lines = <<>> THEN w
    ELSE LET w1 == Write(w, Head(lines))
         IN IF w1.err # NoError THEN w1 ELSE WriteLines(w1, Tail(lines))

\* What a Render call leaves behind: the error it returned, the lines the
\* writer took and the number of Write calls it made.
Rendered(w, err) == [err |-> err, out |-> w.out, calls |-> w.calls]

\* renderNode over st = [g, visited, w, err]: the graph (GetTree builds its
\* tree, sort.Strings reorders the slice the tree holds), the visited set,
\* the writer and the error returned.  A prefix is the sequence of its units.
RECURSIVE renderNode(_, _, _, _)
RECURSIVE renderChildren(_, _, _, _)
\* A renderNode that guards against the modules on the path from the root
\* only: it forgets a module once its children are written.
renderNodeOnPathGuard(st, nodeKey, prefix, isLast) ==
    LET connector == IF prefix = <<>> THEN ""
                     ELSE IF isLast THEN Corner ELSE Branch
        line == [prefix |-> prefix, connector |-> connector, text |-> nodeKey]
        w1 == Write(st.w, line)
    IN IF w1.err # NoError THEN [st EXCEPT !.w = w1, !.err = w1.err]
       ELSE IF nodeKey \in st.visited THEN [st EXCEPT !.w = w1]
       ELSE LET g1 == GetTree(st.g)
                known == nodeKey \in DOMAIN g1.tree
                deps == IF known THEN SortStrings(g1.tree[nodeKey]) ELSE <<>>
                g2 == IF known THEN [g1 EXCEPT !.tree[nodeKey] = deps] ELSE g1
                newPrefix == IF prefix = <<>> THEN <<RootIndent>>
                             ELSE IF isLast THEN Append(prefix, Indent)
                             ELSE Append(prefix, Bar)
                st1 == [g |-> g2,
                        visited |-> st.visited \cup {nodeKey},
                        w |-> w1,
                        err |-> NoError]
                st2 == renderChildren(st1, deps, 1, newPrefix)
            IN [st2 EXCEPT !.visited = st.visited]

\* A renderNode that continues the bar under a last sibling and not under the
\* others.
renderNodeSwappedBar(st, nodeKey, prefix, isLast) ==
    LET connector == IF prefix = <<>> THEN ""
                     ELSE IF isLast THEN Corner ELSE Branch
        line == [prefix |-> prefix, connector |-> connector, text |-> nodeKey]
        w1 == Write(st.w, line)
    IN IF w1.err # NoError THEN [st EXCEPT !.w = w1, !.err = w1.err]
       ELSE IF nodeKey \in st.visited THEN [st EXCEPT !.w = w1]
       ELSE LET g1 == GetTree(st.g)
                known == nodeKey \in DOMAIN g1.tree
                deps == IF known THEN SortStrings(g1.tree[nodeKey]) ELSE <<>>
                g2 == IF known THEN [g1 EXCEPT !.tree[nodeKey] = deps] ELSE g1
                newPrefix == IF prefix = <<>> THEN <<RootIndent>>
                             ELSE IF isLast THEN Append(prefix, Bar)
                             ELSE Append(prefix, Indent)
                st1 == [g |-> g2,
                        visited |-> st.visited \cup {nodeKey},
                        w |-> w1,
                        err |-> NoError]
            IN renderChildren(st1, deps, 1, newPrefix)

renderNode(st, nodeKey, prefix, isLast) ==
    LET connector == IF prefix = <<>> THEN ""
                     ELSE IF isLast THEN Corner ELSE Branch
        line == [prefix |-> prefix, connector |-> connector, text |-> nodeKey]
        w1 == Write(st.w, line)
    IN IF w1.err # NoError THEN [st EXCEPT !.w = w1, !.err = w1.err]
       ELSE IF nodeKey \in st.visited THEN [st EXCEPT !.w = w1]
       ELSE LET g1 == GetTree(st.g)
                known == nodeKey \in DOMAIN g1.tree
                deps == IF known THEN SortStrings(g1.tree[nodeKey]) ELSE <<>>
                g2 == IF known THEN [g1 EXCEPT !.tree[nodeKey] = deps] ELSE g1
                newPrefix == IF prefix = <<>> THEN <<RootIndent>>
                             ELSE IF isLast THEN Append(prefix, Indent)
                             ELSE Append(prefix, Bar)
                st1 == [g |-> g2,
                        visited |-> st.visited \cup {nodeKey},
                        w |-> w1,
                        err |-> NoError]
            IN renderChildren(st1, deps, 1, newPrefix)

\* A children loop that goes on to the next child when one returned an error.
RECURSIVE renderChildrenKeepGoing(_, _, _, _)
renderChildrenKeepGoing(st, deps, i, newPrefix) ==
    IF i > Len(deps) THEN st
    ELSE renderChildrenKeepGoing(
             renderNode(st, deps[i], newPrefix, i = Len(deps)),
             deps, i + 1, newPrefix)

renderChildren(st, deps, i, newPrefix) ==
    IF i > Len(deps) THEN st
    ELSE LET st1 == renderNode(st, deps[i], newPrefix, i = Len(deps))
         IN IF st1.err # NoError THEN st1
            ELSE renderChildren(st1, deps, i + 1, newPrefix)

PlaintextRender(g, sink) ==
    renderNode([g |-> g, visited |-> {}, w |-> NewWriter(sink),
                err |-> NoError],
               String(g.MainModule), <<>>, TRUE)

\* The nodeIDs map of MermaidRenderer.Render: N<i> for the i-th module.
\* A nodeIDs whose idCounter stays at 1.
nodeIDsNoIncrement(modules) ==
    [s \in {String(modules[i]) : i \in DOMAIN modules} |-> 1]

nodeIDs(modules) ==
    [s \in {String(modules[i]) : i \in DOMAIN modules} |->
        CHOOSE i \in DOMAIN modules :
            /\ String(modules[i]) = s
            /\ \A j \in DOMAIN modules : String(modules[j]) = s => j <= i]

\* MermaidRenderer.Render: modules is what its GetAllModules call returned,
\* declOrder the range order over nodeIDs.
MermaidRender(g, modules, declOrder, sink) ==
    LET ids == nodeIDs(modules)
        decls == [k \in 1..Len(declOrder) |->
                     [kind |-> "node", id |-> ids[declOrder[k]],
                      label |-> ReplaceAllByte(declOrder[k], Ch.quote,
                                               <<Ch.backslash, Ch.quote>>)]]
        edges == [k \in 1..Len(g.Dependencies) |->
                     [kind |-> "edge",
                      from |-> ids[String(g.Dependencies[k].From)],
                      to |-> ids[String(g.Dependencies[k].To)]]]
        w == WriteLines(NewWriter(sink),
                        <<[kind |-> "graph TD"]>> \o decls \o edges)
    IN Rendered(w, w.err)

\* A sanitizeNodeID that leaves the dashes.
sanitizeNodeIDKeepDash(nodeID) ==
    LET u == <<Ch.underscore>>
        s1 == ReplaceAllByte(nodeID, Ch.slash, u)
        s2 == ReplaceAllByte(s1, Ch.dot, u)
    IN ReplaceAllByte(s2, Ch.at, u)

sanitizeNodeID(nodeID) ==
    LET u == <<Ch.underscore>>
        s1 == ReplaceAllByte(nodeID, Ch.slash, u)
        s2 == ReplaceAllByte(s1, Ch.dot, u)
        s3 == ReplaceAllByte(s2, Ch.at, u)
    IN ReplaceAllByte(s3, Ch.dash, u)

\* A GraphvizRenderer.Render that writes the edges before the nodes.
GraphvizRenderEdgesFirst(g, modules, sink) ==
    LET nodes == [k \in 1..Len(modules) |->
                     LET moduleStr == String(modules[k])
                     IN [kind |-> "node",
                         id |-> sanitizeNodeID(moduleStr),
                         label |-> ReplaceAllByte(moduleStr, Ch.quote,
                                                  <<Ch.backslash, Ch.quote>>),
                         highlight |-> moduleStr = String(g.MainModule)]]
        edges == [k \in 1..Len(g.Dependencies) |->
                     [kind |-> "edge",
                      from |-> sanitizeNodeID(String(g.Dependencies[k].From)),
                      to |-> sanitizeNodeID(String(g.Dependencies[k].To))]]
        w == WriteLines(NewWriter(sink),
                 <<[kind |-> "digraph dependencies {"],
                   [kind |-> "rankdir=LR;"],
                   [kind |-> "node [shape=box, style=rounded];"]>>
                     \o edges \o nodes \o <<[kind |-> "}"]>>)
    IN Rendered(w, w.err)

\* GraphvizRenderer.Render: modules is what its GetAllModules call returned.
GraphvizRender(g, modules, sink) ==
    LET nodes == [k \in 1..Len(modules) |->
                     LET moduleStr == String(modules[k])
                     IN [kind |-> "node",
                         id |-> sanitizeNodeID(moduleStr),
                         label |-> ReplaceAllByte(moduleStr, Ch.quote,
                                                  <<Ch.backslash, Ch.quote>>),
                         highlight |-> moduleStr = String(g.MainModule)]]
        edges == [k \in 1..Len(g.Dependencies) |->
                     [kind |-> "edge",
                      from |-> sanitizeNodeID(String(g.Dependencies[k].From)),
                      to |-> sanitizeNodeID(String(g.Dependencies[k].To))]]
        w == WriteLines(NewWriter(sink),
                 <<[kind |-> "digraph dependencies {"],
                   [kind |-> "rankdir=LR;"],
                   [kind |-> "node [shape=box, style=rounded];"]>>
                     \o nodes \o edges \o <<[kind |-> "}"]>>)
    IN Rendered(w, w.err)

\* A generateNodes that marks the module equal to MainModule field by field.
generateNodesByStruct(g, modules) ==
    [k \in 1..Len(modules) |->
        [id |-> k - 1, name |-> String(modules[k]),
         group |-> IF modules[k] = g.MainModule THEN 2 ELSE 1]]

\* The escapedLabel of generateNodes: the two ReplaceAll calls in the order
\* of the code.
escapedLabel(moduleStr) ==
    LET e1 == ReplaceAllByte(moduleStr, Ch.quote, <<Ch.backslash, Ch.quote>>)
    IN ReplaceAllByte(e1, Ch.backslash, <<Ch.backslash, Ch.backslash>>)

\* generateNodes: modules is what its GetAllModules call returned.
generateNodes(g, modules) ==
    [k \in 1..Len(modules) |->
        LET moduleStr == String(modules[k])
            e2 == escapedLabel(moduleStr)
        IN [id |-> k - 1, name |-> e2,
            group |-> IF moduleStr = String(g.MainModule) THEN 2 ELSE 1]]

\* A moduleToIndex that counts the modules from one.
moduleToIndexFromOne(modules) ==
    [s \in {String(modules[i]) : i \in DOMAIN modules} |->
        CHOOSE i \in DOMAIN modules : String(modules[i]) = s]

\* The moduleToIndex map of generateLinks.
moduleToIndex(modules) ==
    [s \in {String(modules[i]) : i \in DOMAIN modules} |->
        (CHOOSE i \in DOMAIN modules :
            /\ String(modules[i]) = s
            /\ \A j \in DOMAIN modules : String(modules[j]) = s => j <= i) - 1]

\* generateLinks: modules is what its GetAllModules call returned.
generateLinks(g, modules) ==
    LET index == moduleToIndex(modules)
    IN [k \in 1..Len(g.Dependencies) |->
           [source |-> index[String(g.Dependencies[k].From)],
            target |-> index[String(g.Dependencies[k].To)]]]

\* HTMLRenderer.Render: the template around its two placeholders, with the
\* fragments spliced in, written in one Write call.  modules1 and modules2
\* are what the GetAllModules calls of generateNodes and generateLinks
\* returned.
\* The text of the document is a sequence of units: [b |-> n] for a byte of
\* a string the graph supplies or of a placeholder, [t |-> ...] for a piece
\* of fixed text of the template or of the Sprintf formats.
Text(s) == [i \in DOMAIN s |-> [b |-> s[i]]]

\* "{{NODES}}"
NodesPlaceholder == Text(<<123, 123, 78, 79, 68, 69, 83, 125, 125>>)

\* "{{LINKS}}"
LinksPlaceholder == Text(<<123, 123, 76, 73, 78, 75, 83, 125, 125>>)

\* getHTMLTemplate: the text before, between and after its two placeholders.
getHTMLTemplate ==
    <<[t |-> "<!DOCTYPE html> ... const nodes = "]>> \o NodesPlaceholder
        \o <<[t |-> "; const links = "]>> \o LinksPlaceholder
        \o <<[t |-> "; ... </html>"]>>

\* strings.ReplaceAll(s, old, new) for a non-empty old.
RECURSIVE ReplaceAll(_, _, _)
ReplaceAll(s, old, new) ==
    IF Len(s) < Len(old) THEN s
    ELSE IF SubSeq(s, 1, Len(old)) = old
    THEN new \o ReplaceAll(SubSeq(s, Len(old) + 1, Len(s)), old, new)
    ELSE <<Head(s)>> \o ReplaceAll(Tail(s), old, new)

\* "[" + strings.Join(xs, ",\n        ") + "]"
RECURSIVE JoinFrom(_, _)
JoinFrom(xs, i) ==
    IF i > Len(xs) THEN <<>>
    ELSE (IF i > 1 THEN <<[t |-> ","]>> ELSE <<>>) \o xs[i] \o JoinFrom(xs, i + 1)

Bracketed(xs) == <<[t |-> "["]>> \o JoinFrom(xs, 1) \o <<[t |-> "]"]>>

\* The string generateNodes returns for its node entries.
nodesJSON(nodes) ==
    Bracketed([k \in DOMAIN nodes |->
                  <<[t |-> "{\"id\": %d, \"name\": \"", v |-> nodes[k].id]>>
                      \o Text(nodes[k].name)
                      \o <<[t |-> "\", \"group\": %d}", v |-> nodes[k].group]>>])

\* The string generateLinks returns for its link entries.
linksJSON(links) ==
    Bracketed([k \in DOMAIN links |->
                  <<[t |-> "{\"source\": %d, \"target\": %d}",
                     v |-> <<links[k].source, links[k].target>>]>>])

HTMLRender(g, modules1, modules2, sink) ==
    LET nodes == generateNodes(g, modules1)
        links == generateLinks(g, modules2)
        html1 == ReplaceAll(getHTMLTemplate, NodesPlaceholder, nodesJSON(nodes))
        html == ReplaceAll(html1, LinksPlaceholder, linksJSON(links))
        w == Write(NewWriter(sink),
                   [kind |-> "html", nodes |-> nodes, links |-> links,
                    doc |-> html])
    IN Rendered(w, w.err)

(***************************************************************************)
(* parser.go                                                               *)
(***************************************************************************)
\* unicode.IsSpace on the bytes a line can hold here.
IsSpace(c) == c \in {Ch.tab, Ch.sp}

RECURSIVE TrimLeft(_)
TrimLeft(s) ==
    IF s # <<>> /\ IsSpace(Head(s)) THEN TrimLeft(Tail(s)) ELSE s

RECURSIVE TrimRight(_)
TrimRight(s) ==
    IF s # <<>> /\ IsSpace(s[Len(s)]) THEN TrimRight(SubSeq(s, 1, Len(s) - 1))
    ELSE s

\* strings.TrimSpace.
TrimSpace(s) == TrimRight(TrimLeft(s))

\* strings.Fields: the maximal runs of non-space bytes, in order.  cur is the
\* field being read, acc the fields read so far.
RECURSIVE FieldsLoop(_, _, _)
FieldsLoop(s, cur, acc) ==
    IF s = <<>> THEN (IF cur = <<>> THEN acc ELSE Append(acc, cur))
    ELSE IF IsSpace(Head(s))
         THEN FieldsLoop(Tail(s), <<>>,
                         IF cur = <<>> THEN acc ELSE Append(acc, cur))
         ELSE FieldsLoop(Tail(s), Append(cur, Head(s)), acc)

Fields(s) == FieldsLoop(s, <<>>, <<>>)

\* The split point read left to right: the index of the first '@', or 0.
IndexAt(s) ==
    IF \E i \in DOMAIN s : s[i] = Ch.at
    THEN CHOOSE i \in DOMAIN s :
            s[i] = Ch.at /\ \A j \in DOMAIN s : s[j] = Ch.at => i <= j
    ELSE 0

\* strings.LastIndex(s, "@"), 1-based: the index of the last '@', or 0.
LastIndexAt(s) ==
    IF \E i \in DOMAIN s : s[i] = Ch.at
    THEN CHOOSE i \in DOMAIN s :
            s[i] = Ch.at /\ \A j \in DOMAIN s : s[j] = Ch.at => j <= i
    ELSE 0

\* parseModule: [ok, module] or [ok, err].
parseModule(moduleStr) ==
    IF moduleStr = <<>>
    THEN [ok |-> FALSE, err |-> "empty module string"]
    ELSE LET i == LastIndexAt(moduleStr)
         IN IF i = 0
            THEN [ok |-> TRUE, module |-> Module(moduleStr, <<>>)]
            ELSE IF i = 1
            THEN [ok |-> FALSE, err |-> "module path cannot be empty"]
            ELSE [ok |-> TRUE,
                  module |-> Module(SubSeq(moduleStr, 1, i - 1),
                                    SubSeq(moduleStr, i + 1, Len(moduleStr)))]

\* A parseLine that only asks for at least two fields.
parseLineAtLeastTwo(line) ==
    LET fields == Fields(line)
    IN IF Len(fields) < 2
       THEN [ok |-> FALSE, err |-> [cause |-> "expected 2 fields, got N",
                                    N |-> Len(fields)]]
       ELSE LET from == parseModule(fields[1])
                to == parseModule(fields[2])
            IN IF ~from.ok
               THEN [ok |-> FALSE,
                     err |-> [cause |-> "invalid from module", inner |-> from.err]]
               ELSE IF ~to.ok
               THEN [ok |-> FALSE,
                     err |-> [cause |-> "invalid to module", inner |-> to.err]]
               ELSE [ok |-> TRUE, dep |-> Dependency(from.module, to.module)]

\* parseLine on a trimmed, non-blank line: [ok, dep] or [ok, err].
parseLine(line) ==
    LET fields == Fields(line)
    IN IF Len(fields) # 2
       THEN [ok |-> FALSE, err |-> [cause |-> "expected 2 fields, got N",
                                    N |-> Len(fields)]]
       ELSE LET from == parseModule(fields[1])
                to == parseModule(fields[2])
            IN IF ~from.ok
               THEN [ok |-> FALSE,
                     err |-> [cause |-> "invalid from module", inner |-> from.err]]
               ELSE IF ~to.ok
               THEN [ok |-> FALSE,
                     err |-> [cause |-> "invalid to module", inner |-> to.err]]
               ELSE [ok |-> TRUE, dep |-> Dependency(from.module, to.module)]

\* A ParseError whose line number counts from 0.
ParseErrorZeroBased(line, content, err) ==
    [kind |-> "ParseError", Line |-> line - 1, Content |-> content, Err |-> err]

ParseError(line, content, err) ==
    [kind |-> "ParseError", Line |-> line, Content |-> content, Err |-> err]

ReadError == [kind |-> "error reading input"]

NoDependenciesError == [kind |-> "no dependencies found in input"]

\* The versionless From modules, first seen first, one per path.
RECURSIVE candidatesLoop(_, _)
candidatesLoop(deps, acc) ==
    IF deps = <<>> THEN acc
    ELSE LET from == Head(deps).From
             seen == \E i \in DOMAIN acc : acc[i].Path = from.Path
         IN candidatesLoop(Tail(deps),
                           IF from.Version = <<>> /\ ~seen
                           THEN Append(acc, from) ELSE acc)

\* The number of edges per From canonical string.
RECURSIVE countsLoop(_, _)
countsLoop(deps, counts) ==
    IF deps = <<>> THEN counts
    ELSE LET key == String(Head(deps).From)
             n == IF key \in DOMAIN counts THEN counts[key] ELSE 0
         IN countsLoop(Tail(deps), MapPut(counts, key, n + 1))

\* A scan in which a later module with an equal count replaces the current
\* one.
RECURSIVE maxCountLoopLastWins(_, _, _, _)
maxCountLoopLastWins(deps, counts, maxCount, mainModule) ==
    IF deps = <<>> THEN mainModule
    ELSE LET from == Head(deps).From
             n == counts[String(from)]
         IN IF n >= maxCount
            THEN maxCountLoopLastWins(Tail(deps), counts, n, from)
            ELSE maxCountLoopLastWins(Tail(deps), counts, maxCount, mainModule)

\* The scan for the From with the highest count: a later module replaces the
\* current one only with a strictly greater count.
RECURSIVE maxCountLoop(_, _, _, _)
maxCountLoop(deps, counts, maxCount, mainModule) ==
    IF deps = <<>> THEN mainModule
    ELSE LET from == Head(deps).From
             n == counts[String(from)]
         IN IF n > maxCount
            THEN maxCountLoop(Tail(deps), counts, n, from)
            ELSE maxCountLoop(Tail(deps), counts, maxCount, mainModule)

\* The fallback of root inference: the From with the most edges.
mostEdges(deps) ==
    maxCountLoop(deps, countsLoop(deps, EmptyMap), 0, Module(<<>>, <<>>))

\* A root inference that only counts edges.
findMainModuleByCount(deps) == mostEdges(deps)

\* Root inference: the only versionless From if there is exactly one, else
\* the From with the most edges.
findMainModule(deps) ==
    LET candidates == candidatesLoop(deps, <<>>)
    IN IF Len(candidates) = 1 THEN candidates[1]
       ELSE mostEdges(deps)

\* The graph ParseGraph returns for the accumulated edges.
RECURSIVE addAll(_, _)
addAll(g, deps) ==
    IF deps = <<>> THEN g
    ELSE addAll(AddDependency(g, Head(deps).From, Head(deps).To), Tail(deps))

\* A post-pass without the zero-edge check.
finishAllowEmpty(deps) ==
    [graph |-> addAll(NewDependencyGraph(findMainModule(deps)), deps),
     err |-> NoError]

\* The post-pass of ParseGraph, after the last line: [graph, err].
finish(deps) ==
    IF Len(deps) = 0
    THEN [graph |-> NoGraph, err |-> NoDependenciesError]
    ELSE [graph |-> addAll(NewDependencyGraph(findMainModule(deps)), deps),
          err |-> NoError]

\* A loop body that skips a line it cannot parse.
scanLineSkipInvalid(deps, n, raw) ==
    LET line == TrimSpace(raw)
    IN IF line = <<>> THEN [deps |-> deps, err |-> NoError]
       ELSE LET r == parseLine(line)
            IN IF ~r.ok THEN [deps |-> deps, err |-> NoError]
               ELSE [deps |-> Append(deps, r.dep), err |-> NoError]

\* One iteration of ParseGraph's loop on line number n with text raw.
scanLine(deps, n, raw) ==
    LET line == TrimSpace(raw)
    IN IF line = <<>> THEN [deps |-> deps, err |-> NoError]
       ELSE LET r == parseLine(line)
            IN IF ~r.ok THEN [deps |-> deps, err |-> ParseError(n, raw, r.err)]
               ELSE [deps |-> Append(deps, r.dep), err |-> NoError]

(***************************************************************************)
(* The modules the callers of the graph API pass in.  Two of them differ   *)
(* as structs and share a canonical string ("a@1").                        *)
(***************************************************************************)
Mods ==
    { Module(<<Ch.a>>, <<>>),
      Module(<<Ch.b>>, <<>>),
      Module(<<Ch.a>>, <<Ch.one>>),
      Module(<<Ch.a, Ch.at, Ch.one>>, <<>>) }

(***************************************************************************)
(* The graph API as a state machine.                                       *)
(***************************************************************************)
\* An output destination nothing was done to.
Untouched == [untouched |-> TRUE]

ParserIdle ==
    /\ input = <<>>
    /\ pc = "idle"
    /\ lineNumber = 0
    /\ dependencies = <<>>
    /\ perr = NoError
    /\ token = <<>>
    /\ output = Untouched

\* The callers of the graph methods: they build graphs of up to MaxDeps
\* edges over Mods, and render to writers that take every Write.
Callers == [mods |-> Mods, maxDeps |-> MaxDeps, writers |-> {Reliable}]

NoCallers == [mods |-> {}, maxDeps |-> 0, writers |-> {}]

Init ==
    /\ env = Callers
    /\ \E root \in env.mods : dg = NewDependencyGraph(root)
    /\ op = "NewDependencyGraph"
    /\ arg = None
    /\ ret = None
    /\ ParserIdle

CallAddDependency ==
    /\ dg # NoGraph
    /\ Len(dg.Dependencies) < env.maxDeps
    /\ \E from \in env.mods, to \in env.mods :
           /\ dg' = AddDependency(dg, from, to)
           /\ arg' = [from |-> from, to |-> to]
    /\ op' = "AddDependency"
    /\ ret' = None
    /\ UNCHANGED <<parserVars, token, env, output>>

CallGetTree ==
    /\ dg # NoGraph
    /\ dg' = GetTree(dg)
    /\ op' = "GetTree"
    /\ arg' = None
    /\ ret' = dg'.tree
    /\ UNCHANGED <<parserVars, token, env, output>>

CallGetAllModules ==
    /\ dg # NoGraph
    /\ \E modules \in GetAllModulesResults(dg) : ret' = modules
    /\ op' = "GetAllModules"
    /\ arg' = None
    /\ UNCHANGED <<dg, parserVars, token, env, output>>

CallGetDirectDependencies ==
    /\ dg # NoGraph
    /\ \E module \in env.mods :
           /\ ret' = GetDirectDependencies(dg, module)
           /\ arg' = [module |-> module]
    /\ op' = "GetDirectDependencies"
    /\ UNCHANGED <<dg, parserVars, token, env, output>>

NextStore ==
    \/ CallAddDependency
    \/ CallGetTree
    \/ CallGetAllModules
    \/ CallGetDirectDependencies

SpecStore == Init /\ [][NextStore]_vars

RenderPlaintext ==
    /\ dg # NoGraph
    /\ \E sink \in env.writers :
           LET st == PlaintextRender(dg, sink)
           IN /\ dg' = st.g
              /\ ret' = Rendered(st.w, st.err)
              /\ arg' = [writer |-> sink]
    /\ op' = "PlaintextRenderer.Render"
    /\ UNCHANGED <<parserVars, token, env, output>>

RenderMermaid ==
    /\ dg # NoGraph
    /\ \E sink \in env.writers, modules \in GetAllModulesResults(dg) :
           \E declOrder \in Perms(DOMAIN nodeIDs(modules)) :
               /\ ret' = MermaidRender(dg, modules, declOrder, sink)
               /\ arg' = [writer |-> sink]
    /\ op' = "MermaidRenderer.Render"
    /\ UNCHANGED <<dg, parserVars, token, env, output>>

RenderGraphviz ==
    /\ dg # NoGraph
    /\ \E sink \in env.writers, modules \in GetAllModulesResults(dg) :
           /\ ret' = GraphvizRender(dg, modules, sink)
           /\ arg' = [writer |-> sink]
    /\ op' = "GraphvizRenderer.Render"
    /\ UNCHANGED <<dg, parserVars, token, env, output>>

RenderHTML ==
    /\ dg # NoGraph
    /\ \E sink \in env.writers,
          modules1 \in GetAllModulesResults(dg),
          modules2 \in GetAllModulesResults(dg) :
           /\ ret' = HTMLRender(dg, modules1, modules2, sink)
           /\ arg' = [writer |-> sink]
    /\ op' = "HTMLRenderer.Render"
    /\ UNCHANGED <<dg, parserVars, token, env, output>>

Next ==
    \/ CallAddDependency
    \/ CallGetTree
    \/ CallGetAllModules
    \/ CallGetDirectDependencies
    \/ RenderPlaintext
    \/ RenderMermaid
    \/ RenderGraphviz
    \/ RenderHTML

Spec == Init /\ [][Next]_vars

\* A graph is built and rendered, by any of the renderers and any number of
\* times.
NextRender ==
    \/ CallAddDependency
    \/ RenderPlaintext
    \/ RenderMermaid
    \/ RenderGraphviz
    \/ RenderHTML

SpecRender == Init /\ [][NextRender]_vars

\* Callers that build graphs of up to MaxTreeDeps edges over three modules
\* and render them as a tree.
TreeCallers ==
    [mods |-> {Module(<<Ch.a>>, <<>>), Module(<<Ch.b>>, <<>>),
               Module(<<Ch.a>>, <<Ch.one>>)},
     maxDeps |-> MaxTreeDeps, writers |-> {Reliable}]

InitTree ==
    /\ env = TreeCallers
    /\ \E root \in env.mods : dg = NewDependencyGraph(root)
    /\ op = "NewDependencyGraph"
    /\ arg = None
    /\ ret = None
    /\ ParserIdle

NextTree ==
    \/ CallAddDependency
    \/ RenderPlaintext

SpecTree == InitTree /\ [][NextTree]_vars

\* Callers whose module paths have a dot or a dash: a.b, a-b and a.
DotCallers ==
    [mods |-> {Module(<<Ch.a, Ch.dot, Ch.b>>, <<>>),
               Module(<<Ch.a, Ch.dash, Ch.b>>, <<>>),
               Module(<<Ch.a>>, <<>>)},
     maxDeps |-> MaxDeps, writers |-> {Reliable}]

InitDot ==
    /\ env = DotCallers
    /\ \E root \in env.mods : dg = NewDependencyGraph(root)
    /\ op = "NewDependencyGraph"
    /\ arg = None
    /\ ret = None
    /\ ParserIdle

NextDot ==
    \/ CallAddDependency
    \/ RenderGraphviz

SpecDot == InitDot /\ [][NextDot]_vars

\* Callers one of whose module paths is the text "{{LINKS}}"; the others
\* are a and b.
PlaceholderCallers ==
    [mods |-> {Module(<<123, 123, 76, 73, 78, 75, 83, 125, 125>>, <<>>),
               Module(<<Ch.a>>, <<>>), Module(<<Ch.b>>, <<>>)},
     maxDeps |-> MaxDeps, writers |-> {Reliable}]

InitHTML ==
    /\ env = PlaceholderCallers
    /\ \E root \in env.mods : dg = NewDependencyGraph(root)
    /\ op = "NewDependencyGraph"
    /\ arg = None
    /\ ret = None
    /\ ParserIdle

NextHTML ==
    \/ CallAddDependency
    \/ RenderHTML

SpecHTML == InitHTML /\ [][NextHTML]_vars

\* The writers that fail one Write call, up to the MaxFailAt-th, and the one
\* that fails none.
Sinks == {[failAt |-> k] : k \in 0..MaxFailAt}

\* Callers that render graphs over two modules to any of these writers.
SinkCallers ==
    [mods |-> {Module(<<Ch.a>>, <<>>), Module(<<Ch.b>>, <<>>)},
     maxDeps |-> MaxDeps, writers |-> Sinks]

InitSink ==
    /\ env = SinkCallers
    /\ \E root \in env.mods : dg = NewDependencyGraph(root)
    /\ op = "NewDependencyGraph"
    /\ arg = None
    /\ ret = None
    /\ ParserIdle

SpecSink == InitSink /\ [][NextRender]_vars

(***************************************************************************)
(* ParseGraph as a state machine over the lines of its reader.             *)
(***************************************************************************)
Line2(x, y) == x \o <<Ch.sp>> \o y

tokA == <<Ch.a>>

tokB == <<Ch.b>>

tokA1 == <<Ch.a, Ch.at, Ch.one>>

tokAt1 == <<Ch.at, Ch.one>>

\* The lines a reader may hold: blank ones, lines with one or three fields,
\* lines with a token that has no path, and edges between a, b and a@1.
Lines ==
    { <<>>,
      <<Ch.tab, Ch.sp>>,
      tokA,
      <<Ch.sp>> \o tokA,
      Line2(tokA, Line2(tokB, tokA)),
      Line2(tokAt1, tokB),
      Line2(tokA, tokAt1),
      Line2(tokA, tokB),
      Line2(tokB, tokA),
      Line2(tokA, tokA1),
      Line2(tokA1, tokB),
      Line2(tokA1, tokA),
      <<Ch.sp>> \o tokA \o <<Ch.sp, Ch.tab>> \o tokB \o <<Ch.sp>> }

Inputs == UNION {[1..n -> Lines] : n \in 0..MaxLines}

InitParse ==
    /\ dg = NoGraph
    /\ op = "ParseGraph"
    /\ arg = None
    /\ ret = None
    /\ env = NoCallers
    /\ input \in Inputs
    /\ pc = "scan"
    /\ lineNumber = 0
    /\ dependencies = <<>>
    /\ perr = NoError
    /\ token = <<>>
    /\ output = Untouched

\* scanner.Scan() returned a line: one iteration of the loop.
ScanLine ==
    /\ pc = "scan"
    /\ lineNumber < Len(input)
    /\ LET r == scanLine(dependencies, lineNumber + 1, input[lineNumber + 1])
       IN /\ dependencies' = r.deps
          /\ perr' = r.err
          /\ pc' = IF r.err = NoError THEN "scan" ELSE "done"
    /\ lineNumber' = lineNumber + 1
    /\ UNCHANGED <<dg, op, arg, ret, env, input, token, output>>

\* scanner.Scan() returned false at the end of the input: the post-pass.
ScanEnd ==
    /\ pc = "scan"
    /\ lineNumber = Len(input)
    /\ LET r == finish(dependencies)
       IN /\ dg' = r.graph
          /\ perr' = r.err
    /\ pc' = "done"
    /\ UNCHANGED <<op, arg, ret, env, input, lineNumber, dependencies, token,
                 output>>

\* scanner.Scan() returned false because the reader failed: scanner.Err().
ScanFail ==
    /\ pc = "scan"
    /\ perr' = ReadError
    /\ pc' = "done"
    /\ UNCHANGED <<dg, op, arg, ret, env, input, lineNumber, dependencies,
                 token, output>>

NextParse ==
    \/ ScanLine
    \/ ScanEnd
    \/ ScanFail

SpecParse == InitParse /\ [][NextParse]_vars

(***************************************************************************)
(* runRoot of the command line: ParseGraphFromFile, the choice of the      *)
(* renderer, the output destination, Render.                               *)
(***************************************************************************)
\* The values of --format: the four formats and one runRoot does not know.
Formats == {"text", "html", "mermaid", "dot", "svg"}

\* The values of --output: standard output, or a file.
Outputs == {"-", "deps.out"}

\* What renderer.Render(graph, writer) may leave: the graph, and the error,
\* the lines written and the Write calls made.
Renderings(format, g, sink) ==
    CASE format = "text" ->
           LET st == PlaintextRender(g, sink)
           IN {[g |-> st.g, r |-> Rendered(st.w, st.err)]}
      [] format = "mermaid" ->
           UNION {{[g |-> g, r |-> MermaidRender(g, modules, declOrder, sink)] :
                      declOrder \in Perms(DOMAIN nodeIDs(modules))} :
                  modules \in GetAllModulesResults(g)}
      [] format = "dot" ->
           {[g |-> g, r |-> GraphvizRender(g, modules, sink)] :
               modules \in GetAllModulesResults(g)}
      [] format = "html" ->
           {[g |-> g, r |-> HTMLRender(g, modules1, modules2, sink)] :
               modules1 \in GetAllModulesResults(g),
               modules2 \in GetAllModulesResults(g)}

\* The users of the command: their output destinations may fail a write.
CliCallers == [mods |-> {}, maxDeps |-> 0, writers |-> Sinks]

InitCLI ==
    /\ dg = NoGraph
    /\ op = "ParseGraph"
    /\ arg = None
    /\ ret = None
    /\ env = CliCallers
    /\ input \in Inputs
    /\ pc = "scan"
    /\ lineNumber = 0
    /\ dependencies = <<>>
    /\ perr = NoError
    /\ token = <<>>
    /\ output = Untouched

\* ParseGraphFromFile returned an error: runRoot returns it wrapped.
RunRootParseFailed ==
    /\ pc = "done"
    /\ perr # NoError
    /\ pc' = "exit"
    /\ op' = "runRoot"
    /\ arg' = None
    /\ ret' = [err |-> [kind |-> "failed to parse graph file", cause |-> perr]]
    /\ UNCHANGED <<dg, env, input, lineNumber, dependencies, perr, token,
                   output>>

\* The graph was parsed: runRoot picks the renderer, opens the destination
\* (os.Create truncates the file) and renders to it.
RunRootRender ==
    /\ pc = "done"
    /\ perr = NoError
    /\ pc' = "exit"
    /\ op' = "runRoot"
    /\ \E format \in Formats, outputFile \in Outputs, created \in BOOLEAN,
          sink \in env.writers :
           /\ arg' = [format |-> format, outputFile |-> outputFile,
                      writer |-> sink]
           /\ IF format = "svg"
              THEN /\ ret' = [err |-> [kind |-> "unsupported output format"]]
                   /\ UNCHANGED <<dg, output>>
              ELSE IF outputFile # "-" /\ ~created
              THEN /\ ret' = [err |-> [kind |-> "failed to create output file"]]
                   /\ UNCHANGED <<dg, output>>
              ELSE \E x \in Renderings(format, dg, sink) :
                       /\ dg' = x.g
                       /\ output' = [lines |-> x.r.out]
                       /\ ret' = [err |-> IF x.r.err = NoError THEN NoError
                                          ELSE [kind |-> "failed to render graph",
                                                cause |-> x.r.err],
                                  rendered |-> x.r]
    /\ UNCHANGED <<env, input, lineNumber, dependencies, perr, token>>

NextCLI ==
    \/ ScanLine
    \/ ScanEnd
    \/ ScanFail
    \/ RunRootParseFailed
    \/ RunRootRender

SpecCLI == InitCLI /\ [][NextCLI]_vars

(***************************************************************************)
(* parseModule applied to every token up to MaxTokenLen bytes.             *)
(***************************************************************************)
TokenBytes == {Ch.at, Ch.a, Ch.one}

Tokens == UNION {[1..n -> TokenBytes] : n \in 0..MaxTokenLen}

InitToken ==
    /\ dg = NoGraph
    /\ op = "none"
    /\ arg = None
    /\ ret = None
    /\ env = NoCallers
    /\ input = <<>>
    /\ pc = "idle"
    /\ lineNumber = 0
    /\ dependencies = <<>>
    /\ perr = NoError
    /\ token \in Tokens
    /\ output = Untouched

CallParseModule ==
    /\ op = "none"
    /\ op' = "parseModule"
    /\ ret' = parseModule(token)
    /\ UNCHANGED <<dg, arg, env, parserVars, token, output>>

NextToken == CallParseModule

SpecToken == InitToken /\ [][NextToken]_vars

(***************************************************************************)
(* sanitizeNodeID applied to the identifier of its test and to every       *)
(* string of up to MaxIDLen bytes over the bytes it replaces, '_' and 'a'. *)
(***************************************************************************)
\* "github.com/example/module@v1.2.3"
ExampleID ==
    <<103, 105, 116, 104, 117, 98, 46, 99, 111, 109, 47, 101,
      120, 97, 109, 112, 108, 101, 47, 109, 111, 100, 117, 108,
      101, 64, 118, 49, 46, 50, 46, 51>>

\* "github_com_example_module_v1_2_3"
ExampleSanitized ==
    <<103, 105, 116, 104, 117, 98, 95, 99, 111, 109, 95, 101,
      120, 97, 109, 112, 108, 101, 95, 109, 111, 100, 117, 108,
      101, 95, 118, 49, 95, 50, 95, 51>>

IDBytes == {Ch.slash, Ch.dot, Ch.at, Ch.dash, Ch.underscore, Ch.a}

NodeIDs == {ExampleID} \cup UNION {[1..n -> IDBytes] : n \in 0..MaxIDLen}

InitSanitize ==
    /\ dg = NoGraph
    /\ op = "none"
    /\ arg = None
    /\ ret = None
    /\ env = NoCallers
    /\ input = <<>>
    /\ pc = "idle"
    /\ lineNumber = 0
    /\ dependencies = <<>>
    /\ perr = NoError
    /\ token \in NodeIDs
    /\ output = Untouched

CallSanitizeNodeID ==
    /\ op = "none"
    /\ op' = "sanitizeNodeID"
    /\ ret' = sanitizeNodeID(token)
    /\ UNCHANGED <<dg, arg, env, parserVars, token, output>>

NextSanitize == CallSanitizeNodeID

SpecSanitize == InitSanitize /\ [][NextSanitize]_vars

(***************************************************************************)
(* generateNodes applied to the graph of one module, for every module path *)
(* of up to MaxLabelLen bytes over '"', '\' and 'a'.                       *)
(***************************************************************************)
LabelBytes == {Ch.quote, Ch.backslash, Ch.a}

Labels == UNION {[1..n -> LabelBytes] : n \in 1..MaxLabelLen}

InitLabel ==
    /\ dg = NoGraph
    /\ op = "none"
    /\ arg = None
    /\ ret = None
    /\ env = NoCallers
    /\ input = <<>>
    /\ pc = "idle"
    /\ lineNumber = 0
    /\ dependencies = <<>>
    /\ perr = NoError
    /\ token \in Labels
    /\ output = Untouched

CallGenerateNodes ==
    /\ op = "none"
    /\ op' = "generateNodes"
    /\ LET module == Module(token, <<>>)
       IN /\ dg' = NewDependencyGraph(module)
          /\ ret' = generateNodes(dg', <<module>>)
    /\ UNCHANGED <<arg, env, parserVars, token, output>>

NextLabel == CallGenerateNodes

SpecLabel == InitLabel /\ [][NextLabel]_vars

(***************************************************************************)
(* What the graph holds, stated without the code's loops.                  *)
(***************************************************************************)
GraphModules(g) ==
    {g.MainModule}
        \cup {g.Dependencies[i].From : i \in DOMAIN g.Dependencies}
        \cup {g.Dependencies[i].To : i \in DOMAIN g.Dependencies}

GraphStrings(g) == {String(m) : m \in GraphModules(g)}

EdgeStrings(g) ==
    {String(g.Dependencies[i].From) : i \in DOMAIN g.Dependencies}
        \cup {String(g.Dependencies[i].To) : i \in DOMAIN g.Dependencies}

\* The adjacency a single pass over deps yields: every From string mapped to
\* the To strings of its edges, in insertion order.
ExpectedTree(deps) ==
    [s \in {String(deps[i].From) : i \in DOMAIN deps} |->
        LET mine == SelectSeq(deps, LAMBDA d : String(d.From) = s)
        IN [i \in 1..Len(mine) |-> String(mine[i].To)]]

(***************************************************************************)
(* C1: GetAllModules returns exactly one module per distinct canonical     *)
(* string of {root} + every From + every To, each a module of the graph,   *)
(* in strictly ascending order of canonical string (the root is there even *)
(* without an edge), whatever order the map was ranged in; and two calls   *)
(* in a row on the unmutated graph return the identical sequence.          *)
(***************************************************************************)
C1_AllModulesExact ==
    op = "GetAllModules" =>
        /\ {String(ret[i]) : i \in DOMAIN ret} = GraphStrings(dg)
        /\ \A i \in DOMAIN ret : ret[i] \in GraphModules(dg)
        /\ \A i \in 1..(Len(ret) - 1) : Less(String(ret[i]), String(ret[i + 1]))
        /\ Len(ret) = Cardinality(GraphStrings(dg))

C1_AllModulesStable ==
    (op = "GetAllModules" /\ op' = "GetAllModules" /\ dg' = dg) => ret' = ret

C1_GetAllModules == [](C1_AllModulesExact) /\ [][C1_AllModulesStable]_vars

\* A call on a graph whose root has no edge, which holds three canonical
\* strings, two structurally different modules sharing one of them.
C1_Witness ==
    /\ op = "GetAllModules"
    /\ Len(ret) = 3
    /\ String(dg.MainModule) \notin EdgeStrings(dg)
    /\ \E m, n \in GraphModules(dg) : m # n /\ String(m) = String(n)

(***************************************************************************)
(* C2: under AddDependency and GetTree calls in any interleaving, the      *)
(* cached tree is never stale: it is empty or it is the single-pass        *)
(* adjacency of the current Dependencies, and GetTree returns exactly that *)
(* adjacency (insertion order, no key for a module without outgoing edge). *)
(***************************************************************************)
C2_TreeNeverStale ==
    /\ dg.tree = EmptyMap \/ dg.tree = ExpectedTree(dg.Dependencies)
    /\ op = "GetTree" =>
           /\ ret = ExpectedTree(dg.Dependencies)
           /\ DOMAIN ret =
                  {String(dg.Dependencies[i].From) : i \in DOMAIN dg.Dependencies}

\* GetTree on a graph with two edges out of one module, inserted in descending
\* order of their targets, and with a module that has no outgoing edge.
C2_Witness ==
    /\ op = "GetTree"
    /\ Len(dg.Dependencies) = 2
    /\ String(dg.Dependencies[1].From) = String(dg.Dependencies[2].From)
    /\ Less(String(dg.Dependencies[2].To), String(dg.Dependencies[1].To))
    /\ Len(ret[String(dg.Dependencies[1].From)]) = 2
    /\ String(dg.Dependencies[1].To) \notin DOMAIN ret

(***************************************************************************)
(* C3: rendering does not change the graph: a Render step of any of the    *)
(* four renderers leaves MainModule, Dependencies and the mapping GetTree  *)
(* returns (the order of every adjacency list included) as they were.      *)
(* PlaintextRenderer.renderNode sorts the slice the cached tree holds, so  *)
(* the step below is violated.                                             *)
(***************************************************************************)
RenderOps ==
    {"PlaintextRenderer.Render", "MermaidRenderer.Render",
     "GraphvizRenderer.Render", "HTMLRenderer.Render"}

\* A step in which one of the four Render methods ran.
RenderStep == op' \in RenderOps

C3_GraphUnchanged ==
    /\ dg'.MainModule = dg.MainModule
    /\ dg'.Dependencies = dg.Dependencies
    /\ GetTree(dg').tree = GetTree(dg).tree

C3_RenderLeavesGraph == [][RenderStep => C3_GraphUnchanged]_vars

(***************************************************************************)
(* What a line is, stated on its bytes.                                    *)
(***************************************************************************)
IsBlank(raw) == \A i \in DOMAIN raw : IsSpace(raw[i])

\* The number of maximal runs of non-space bytes.
NumFields(raw) ==
    Cardinality({i \in DOMAIN raw :
                    ~IsSpace(raw[i]) /\ (i = 1 \/ IsSpace(raw[i - 1]))})

AtPositions(t) == {i \in DOMAIN t : t[i] = Ch.at}

\* A token the module-token rule accepts: not empty, and its last '@' is not
\* its first byte.
TokenValid(t) ==
    /\ t # <<>>
    /\ ~(t[1] = Ch.at /\ AtPositions(t) = {1})

\* The module a valid token denotes: the token itself without '@', else the
\* split whose version holds no '@'.
ModuleOfToken(t) ==
    IF AtPositions(t) = {} THEN Module(t, <<>>)
    ELSE CHOOSE m \in {Module(SubSeq(t, 1, i - 1), SubSeq(t, i + 1, Len(t))) :
                          i \in AtPositions(t)} :
             AtPositions(m.Version) = {}

LineValid(raw) ==
    /\ NumFields(raw) = 2
    /\ TokenValid(Fields(raw)[1])
    /\ TokenValid(Fields(raw)[2])

Offending(raw) == ~IsBlank(raw) /\ ~LineValid(raw)

\* The 1-based number of the first offending line, or 0.
FirstOffending(lines) ==
    IF \E i \in DOMAIN lines : Offending(lines[i])
    THEN CHOOSE i \in DOMAIN lines :
            Offending(lines[i]) /\ \A j \in 1..(i - 1) : ~Offending(lines[j])
    ELSE 0

NonBlank(lines) == SelectSeq(lines, LAMBDA l : ~IsBlank(l))

\* The paths of the From modules that carry no version.
VersionlessFromPaths(deps) ==
    {deps[i].From.Path : i \in {j \in DOMAIN deps : deps[j].From.Version = <<>>}}

FromCount(deps, s) == Cardinality({i \in DOMAIN deps : String(deps[i].From) = s})

Parsed == pc = "done" /\ perr = NoError

(***************************************************************************)
(* C4: the module-token rule splits at the last '@': a non-empty token     *)
(* without '@' gives (token, empty version); a token whose last '@' is not *)
(* its first byte gives (the bytes before it, the bytes after it); the     *)
(* empty token and a token whose last '@' is its first byte are rejected.  *)
(***************************************************************************)
C4_SplitAtLastAt ==
    op = "parseModule" =>
        /\ token = <<>> => ~ret.ok
        /\ (token # <<>> /\ AtPositions(token) = {}) =>
               (ret.ok /\ ret.module = Module(token, <<>>))
        /\ \A i \in AtPositions(token) :
               (\A j \in AtPositions(token) : j <= i) =>
                   IF i = 1 THEN ~ret.ok
                   ELSE /\ ret.ok
                        /\ ret.module.Path = SubSeq(token, 1, i - 1)
                        /\ ret.module.Version = SubSeq(token, i + 1, Len(token))

\* A token with two '@' was parsed: its path keeps the first one.
C4_Witness ==
    /\ op = "parseModule"
    /\ ret.ok
    /\ AtPositions(ret.module.Path) # {}
    /\ ret.module.Version # <<>>

(***************************************************************************)
(* C5: when the From modules without a version have exactly one distinct   *)
(* path, the parsed graph's root is that module.  Every order of every     *)
(* list of lines is an input here, so the root is the same for every       *)
(* permutation of the lines.                                               *)
(***************************************************************************)
C5_SingleVersionlessRoot ==
    (Parsed /\ Cardinality(VersionlessFromPaths(dg.Dependencies)) = 1) =>
        /\ dg.MainModule.Version = <<>>
        /\ dg.MainModule.Path \in VersionlessFromPaths(dg.Dependencies)

\* Three edges parsed; the only versionless From comes after a versioned From
\* that has more edges than it.
C5_Witness ==
    /\ Parsed
    /\ Len(dg.Dependencies) = 3
    /\ Cardinality(VersionlessFromPaths(dg.Dependencies)) = 1
    /\ dg.Dependencies[1].From.Version # <<>>
    /\ FromCount(dg.Dependencies, String(dg.Dependencies[1].From)) = 2
    /\ dg.MainModule.Version = <<>>

(***************************************************************************)
(* C6: a successful parse returns one edge per non-blank line, in line     *)
(* order, duplicates kept; blank lines give no edge and no error.          *)
(***************************************************************************)
C6_OneEdgePerLine ==
    Parsed =>
        LET lines == NonBlank(input)
        IN /\ Len(dg.Dependencies) = Len(lines)
           /\ \A k \in DOMAIN lines :
                  /\ dg.Dependencies[k].From = ModuleOfToken(Fields(lines[k])[1])
                  /\ dg.Dependencies[k].To = ModuleOfToken(Fields(lines[k])[2])

\* Parsed: the same edge twice, from two lines with a blank line between.
C6_Witness ==
    /\ Parsed
    /\ Len(input) = 3
    /\ IsBlank(input[2])
    /\ Len(dg.Dependencies) = 2
    /\ dg.Dependencies[1] = dg.Dependencies[2]

(***************************************************************************)
(* C7: a non-blank line whose number N of whitespace-separated tokens is   *)
(* not 2 fails the parse with cause "expected 2 fields, got N" (when the   *)
(* parse gets to it: no earlier line offends and the reader does not       *)
(* fail); leading whitespace before a single token gives N = 1.            *)
(***************************************************************************)
C7_FieldCount ==
    (pc = "done" /\ perr # ReadError /\ FirstOffending(input) # 0) =>
        LET raw == input[FirstOffending(input)]
        IN NumFields(raw) # 2 =>
               /\ perr.kind = "ParseError"
               /\ perr.Err = [cause |-> "expected 2 fields, got N",
                              N |-> NumFields(raw)]
               /\ dg = NoGraph

\* The parse failed on a line of three fields.
C7_Witness ==
    /\ pc = "done"
    /\ perr.kind = "ParseError"
    /\ perr.Err = [cause |-> "expected 2 fields, got N", N |-> 3]

(***************************************************************************)
(* C8: a ParseError carries the 1-based number, counted over all lines     *)
(* (blank ones too), and the literal text of the first offending line, and *)
(* no line after it was read.                                              *)
(***************************************************************************)
C8_FirstOffendingLine ==
    perr.kind = "ParseError" =>
        /\ pc = "done"
        /\ FirstOffending(input) # 0
        /\ perr.Line = FirstOffending(input)
        /\ perr.Content = input[perr.Line]
        /\ lineNumber = perr.Line

\* The error is on line 2, after a blank line 1 and before an offending line 3.
C8_Witness ==
    /\ perr.kind = "ParseError"
    /\ Len(input) = 3
    /\ IsBlank(input[1])
    /\ perr.Line = 2
    /\ perr.Content # TrimSpace(perr.Content)
    /\ Offending(input[3])

(***************************************************************************)
(* C9: a failed parse returns no graph, and no graph exists before the     *)
(* parse is over; a graph is returned exactly when the reader did not fail,*)
(* every non-blank line is valid and at least one line is not blank.       *)
(***************************************************************************)
C9_NoPartialGraph ==
    /\ pc # "done" => dg = NoGraph
    /\ pc = "done" =>
           /\ perr # NoError => dg = NoGraph
           /\ perr = NoError => dg # NoGraph
           /\ dg # NoGraph =>
                  (FirstOffending(input) = 0 /\ NonBlank(input) # <<>>)
           /\ (perr # ReadError /\ FirstOffending(input) = 0
                   /\ NonBlank(input) # <<>>) => dg # NoGraph

\* The parse failed on line 2 with an edge of line 1 already accumulated.
C9_Witness ==
    /\ pc = "done"
    /\ perr.kind = "ParseError"
    /\ perr.Line = 2
    /\ Len(dependencies) = 1
    /\ dg = NoGraph

(***************************************************************************)
(* C10: an input without any edge (no line, or blank lines only) fails     *)
(* with "no dependencies found in input", and that error is raised only    *)
(* after every line was read.                                              *)
(***************************************************************************)
C10_NoDependencies ==
    /\ (pc = "done" /\ perr # ReadError /\ \A i \in DOMAIN input : IsBlank(input[i]))
           => (perr = NoDependenciesError /\ dg = NoGraph)
    /\ perr = NoDependenciesError =>
           /\ lineNumber = Len(input)
           /\ \A i \in DOMAIN input : IsBlank(input[i])

\* Two blank lines were read and the parse failed for want of an edge.
C10_Witness ==
    /\ perr = NoDependenciesError
    /\ Len(input) = 2
    /\ lineNumber = 2

(***************************************************************************)
(* C11: GetDirectDependencies(m) returns the To modules of exactly the     *)
(* edges whose From has the canonical string of m, in insertion order and  *)
(* with duplicates repeated; it is empty for a module without an outgoing  *)
(* edge; and its canonical strings are GetTree()[m.String()] of a graph    *)
(* that was not rendered.                                                  *)
(***************************************************************************)
EdgesFrom(g, s) == {i \in DOMAIN g.Dependencies : String(g.Dependencies[i].From) = s}

\* The i-th smallest element of a set of indices.
Nth(S, i) == CHOOSE k \in S : Cardinality({j \in S : j < k}) = i - 1

C11_DirectDependencies ==
    op = "GetDirectDependencies" =>
        LET s == String(arg.module)
            E == EdgesFrom(dg, s)
            tree == GetTree(dg).tree
        IN /\ Len(ret) = Cardinality(E)
           /\ \A i \in 1..Len(ret) : ret[i] = dg.Dependencies[Nth(E, i)].To
           /\ E = {} => ret = <<>>
           /\ [i \in 1..Len(ret) |-> String(ret[i])] =
                  IF s \in DOMAIN tree THEN tree[s] ELSE <<>>

\* The same edge was added twice and asked for through a module that has the
\* canonical string of its From but not its fields.
C11_Witness ==
    /\ op = "GetDirectDependencies"
    /\ Len(ret) = 2
    /\ ret[1] = ret[2]
    /\ arg.module # dg.Dependencies[1].From
    /\ String(arg.module) = String(dg.Dependencies[1].From)

(***************************************************************************)
(* C12: AddDependency only appends: the edge count grows by one, the new   *)
(* edge (from, to) is the last one, the edges before it keep their         *)
(* positions, MainModule stays, and an edge the graph already holds is     *)
(* added again.  No operation removes an edge.                             *)
(***************************************************************************)
C12_AddStep ==
    op' = "AddDependency" =>
        /\ Len(dg'.Dependencies) = Len(dg.Dependencies) + 1
        /\ dg'.Dependencies[Len(dg'.Dependencies)] =
               Dependency(arg'.from, arg'.to)
        /\ \A i \in DOMAIN dg.Dependencies :
               dg'.Dependencies[i] = dg.Dependencies[i]
        /\ dg'.MainModule = dg.MainModule

C12_NoRemoval ==
    /\ Len(dg'.Dependencies) >= Len(dg.Dependencies)
    /\ \A i \in DOMAIN dg.Dependencies :
           dg'.Dependencies[i] = dg.Dependencies[i]

C12_AppendOnly == [][C12_AddStep /\ C12_NoRemoval]_vars

\* The edge the graph held was added once more, and is there twice.
C12_Witness ==
    /\ op = "AddDependency"
    /\ Len(dg.Dependencies) = 2
    /\ dg.Dependencies[1] = dg.Dependencies[2]
    /\ dg.Dependencies[2] = Dependency(arg.from, arg.to)

(***************************************************************************)
(* C13: every renderer is deterministic: a renderer that renders the same  *)
(* graph twice to the same kind of writer writes the same output both      *)
(* times, the order of the flowchart's node declarations included.         *)
(***************************************************************************)
C13_SameRenderAgain ==
    /\ op \in RenderOps
    /\ op' = op
    /\ arg' = arg
    /\ dg'.MainModule = dg.MainModule
    /\ dg'.Dependencies = dg.Dependencies

C13_Deterministic == [][C13_SameRenderAgain => ret' = ret]_vars

(***************************************************************************)
(* C14: generateLinks emits one {source, target} entry per edge, in edge   *)
(* order and with duplicate edges repeated; the entry of generateNodes at  *)
(* position source is the one of the edge's From module and the entry at   *)
(* position target the one of its To module, so both lie in 0..n-1 for n   *)
(* modules.                                                                *)
(***************************************************************************)
\* The position of canonical string s among the sorted strings of the graph.
Rank(g, s) == Cardinality({t \in GraphStrings(g) : Less(t, s)})

HTMLWritten == op = "HTMLRenderer.Render" /\ ret.err = NoError

C14_LinksMatchNodes ==
    HTMLWritten =>
        LET nodes == ret.out[1].nodes
            links == ret.out[1].links
            n == Cardinality(GraphStrings(dg))
        IN /\ Len(nodes) = n
           /\ Len(links) = Len(dg.Dependencies)
           /\ \A k \in DOMAIN links :
                  /\ links[k].source \in 0..(n - 1)
                  /\ links[k].target \in 0..(n - 1)
                  /\ nodes[links[k].source + 1].id = links[k].source
                  /\ nodes[links[k].target + 1].id = links[k].target
                  /\ links[k].source = Rank(dg, String(dg.Dependencies[k].From))
                  /\ links[k].target = Rank(dg, String(dg.Dependencies[k].To))

\* An edge whose From sorts after its To was added twice and written as two
\* equal links.
C14_Witness ==
    /\ HTMLWritten
    /\ Len(ret.out[1].links) = 2
    /\ ret.out[1].links[1] = ret.out[1].links[2]
    /\ ret.out[1].links[1].source > ret.out[1].links[1].target

(***************************************************************************)
(* C15: generateNodes emits exactly one entry per module of                *)
(* GetAllModules(), in sorted order, with the 0-based position as id; the  *)
(* entry whose canonical string is the root's has group 2 and every other  *)
(* entry group 1, so exactly one entry has group 2.                        *)
(***************************************************************************)
\* The canonical strings of the graph in ascending order.
SortedStrings(g) ==
    [i \in 1..Cardinality(GraphStrings(g)) |->
        CHOOSE s \in GraphStrings(g) : Rank(g, s) = i - 1]

NeedsEscape(s) == \E i \in DOMAIN s : s[i] \in {Ch.quote, Ch.backslash}

C15_NodesPerModule ==
    HTMLWritten =>
        LET nodes == ret.out[1].nodes
            strs == SortedStrings(dg)
        IN /\ Len(nodes) = Len(strs)
           /\ \A i \in DOMAIN nodes :
                  /\ nodes[i].id = i - 1
                  /\ ~NeedsEscape(strs[i]) => nodes[i].name = strs[i]
                  /\ nodes[i].group =
                         IF strs[i] = String(dg.MainModule) THEN 2 ELSE 1
           /\ Cardinality({i \in DOMAIN nodes : nodes[i].group = 2}) = 1

\* The root was given with a version, the module set holds a module with the
\* same canonical string and other fields, and its entry is the second one.
C15_Witness ==
    /\ HTMLWritten
    /\ Len(ret.out[1].nodes) = 2
    /\ ret.out[1].nodes[2].group = 2
    /\ dg.MainModule.Version # <<>>
    /\ \E i \in DOMAIN dg.Dependencies :
           /\ dg.Dependencies[i].From # dg.MainModule
           /\ String(dg.Dependencies[i].From) = String(dg.MainModule)

(***************************************************************************)
(* C16: a failed write to the sink stops the render: Render returns the    *)
(* error of that write and makes no further Write call; when no write      *)
(* fails, Render returns no error.                                         *)
(***************************************************************************)
\* The writer failed one of the Write calls the renderer made.
WriteFailed == arg.writer.failAt \in 1..ret.calls

C16_SinkErrors ==
    op \in RenderOps =>
        IF WriteFailed
        THEN /\ ret.err = WriteError
             /\ ret.calls = arg.writer.failAt
             /\ Len(ret.out) = ret.calls - 1
        ELSE /\ ret.err = NoError
             /\ Len(ret.out) = ret.calls

\* The tree renderer had written the root and its first child when the
\* write of the second child failed.
C16_Witness ==
    /\ op = "PlaintextRenderer.Render"
    /\ arg.writer.failAt = 3
    /\ ret.err = WriteError
    /\ Len(ret.out) = 2
    /\ Len(ret.out[2].prefix) = 1
    /\ ret.out[2].connector = Branch

(***************************************************************************)
(* C17: an invocation of the command is all-or-nothing: after a parse      *)
(* error nothing was done to the output destination, and otherwise the     *)
(* destination holds the complete rendering or nothing was written to it,  *)
(* also when a write to it failed during the render.                       *)
(***************************************************************************)
C17_AllOrNothing ==
    pc = "exit" =>
        /\ perr # NoError => output = Untouched
        /\ \/ output = Untouched
           \/ output.lines = <<>>
           \/ ret.err = NoError

(***************************************************************************)
(* C18: sanitizeNodeID replaces every '/', '.', '@' and '-' with '_' and   *)
(* leaves every other character as it is and where it is, so the length    *)
(* stays; sanitizing the result again changes nothing; and                 *)
(* "github.com/example/module@v1.2.3" gives                                *)
(* "github_com_example_module_v1_2_3".                                     *)
(***************************************************************************)
Replaced == {Ch.slash, Ch.dot, Ch.at, Ch.dash}

C18_Sanitize ==
    op = "sanitizeNodeID" =>
        /\ Len(ret) = Len(token)
        /\ \A i \in DOMAIN token :
               ret[i] = IF token[i] \in Replaced THEN Ch.underscore ELSE token[i]
        /\ sanitizeNodeID(ret) = ret
        /\ token = ExampleID => ret = ExampleSanitized

\* An identifier with all four replaced characters was sanitized.
C18_Witness ==
    /\ op = "sanitizeNodeID"
    /\ {token[i] : i \in DOMAIN token} = Replaced

(***************************************************************************)
(* C19: when the versionless From modules have no path or more than one,   *)
(* the root is the From module whose canonical string is the From of the   *)
(* most edges, the first such module in edge order when several have the   *)
(* most; so whenever there is an edge the parse gives a root, and the root *)
(* is the From of a parsed edge.                                           *)
(***************************************************************************)
MaxFromCount(deps) ==
    CHOOSE n \in 1..Len(deps) :
        /\ \E i \in DOMAIN deps : FromCount(deps, String(deps[i].From)) = n
        /\ \A i \in DOMAIN deps : FromCount(deps, String(deps[i].From)) <= n

FirstWithMost(deps) ==
    CHOOSE i \in DOMAIN deps :
        /\ FromCount(deps, String(deps[i].From)) = MaxFromCount(deps)
        /\ \A j \in 1..(i - 1) :
               FromCount(deps, String(deps[j].From)) < MaxFromCount(deps)

C19_FallbackRoot ==
    /\ (Parsed /\ Cardinality(VersionlessFromPaths(dg.Dependencies)) # 1) =>
           dg.MainModule = dg.Dependencies[FirstWithMost(dg.Dependencies)].From
    /\ (pc = "done" /\ perr = NoError) =>
           /\ dg # NoGraph
           /\ dg.Dependencies = dependencies
           /\ \E i \in DOMAIN dg.Dependencies :
                  dg.MainModule = dg.Dependencies[i].From
    /\ (pc = "done" /\ dependencies # <<>> /\ lineNumber = Len(input)
           /\ perr # ReadError /\ FirstOffending(input) = 0) => perr = NoError

\* Two versionless From modules with one edge each: the first is the root.
C19_Witness ==
    /\ Parsed
    /\ Len(dg.Dependencies) = 2
    /\ Cardinality(VersionlessFromPaths(dg.Dependencies)) = 2
    /\ dg.MainModule = dg.Dependencies[1].From
    /\ dg.MainModule # dg.Dependencies[2].From

(***************************************************************************)
(* C20: within one Render call of the tree renderer the children of a      *)
(* module are written at most once: the first line of a module is followed *)
(* by one child line per edge from it, every later line of the module by   *)
(* none; and this is so on every Render call, whatever was rendered        *)
(* before.                                                                 *)
(***************************************************************************)
Depth(out, i) == Len(out[i].prefix)

\* The lines written for the children of line i.
ChildLines(out, i) ==
    {j \in (i + 1)..Len(out) :
        /\ Depth(out, j) = Depth(out, i) + 1
        /\ \A k \in (i + 1)..j : Depth(out, k) > Depth(out, i)}

FirstLineOf(out, i) == \A j \in 1..(i - 1) : out[j].text # out[i].text

TreeWritten == op = "PlaintextRenderer.Render" /\ ret.err = NoError

C20_ExpandedOnce ==
    TreeWritten =>
        /\ ret.out[1].text = String(dg.MainModule)
        /\ \A i \in DOMAIN ret.out :
               IF FirstLineOf(ret.out, i)
               THEN Cardinality(ChildLines(ret.out, i)) =
                        Cardinality(EdgesFrom(dg, ret.out[i].text))
               ELSE /\ ChildLines(ret.out, i) = {}
                    /\ i < Len(ret.out) =>
                           Depth(ret.out, i + 1) <= Depth(ret.out, i)

\* Three distinct edges without a self-loop; a module with an edge of its
\* own is written twice, under two prefixes, and its children once.
C20_Witness ==
    /\ TreeWritten
    /\ Len(dg.Dependencies) = 3
    /\ \A i, j \in DOMAIN dg.Dependencies :
           i # j => dg.Dependencies[i] # dg.Dependencies[j]
    /\ \A i \in DOMAIN dg.Dependencies :
           dg.Dependencies[i].From # dg.Dependencies[i].To
    /\ \E i, j \in DOMAIN ret.out :
           /\ i < j
           /\ ret.out[i].text = ret.out[j].text
           /\ ret.out[i].prefix # ret.out[j].prefix
           /\ ChildLines(ret.out, i) # {}

(***************************************************************************)
(* C21: the tree render returns on every graph, cycles, self-loops on the  *)
(* root and shared dependencies included, after at most 1 + (number of     *)
(* edges) calls of renderNode.  Every call of renderNode makes exactly one *)
(* Write call, its first statement, so ret.calls counts them.              *)
(***************************************************************************)
C21_BoundedCalls ==
    op = "PlaintextRenderer.Render" =>
        /\ ret.calls >= 1
        /\ ret.calls <= 1 + Len(dg.Dependencies)
        /\ ret.err = NoError => Len(ret.out) = ret.calls

\* The root has a self-loop and lies on a cycle through another module: the
\* render returned after four calls.
C21_Witness ==
    /\ TreeWritten
    /\ Len(dg.Dependencies) = 3
    /\ ret.calls = 4
    /\ \E i \in DOMAIN dg.Dependencies :
           /\ dg.Dependencies[i].From = dg.MainModule
           /\ dg.Dependencies[i].To = dg.MainModule
    /\ \E i, j \in DOMAIN dg.Dependencies :
           /\ dg.Dependencies[i].From = dg.MainModule
           /\ dg.Dependencies[i].To # dg.MainModule
           /\ dg.Dependencies[j].From = dg.Dependencies[i].To
           /\ dg.Dependencies[j].To = dg.MainModule

(***************************************************************************)
(* C22: the name of a node-link entry is the canonical string with every   *)
(* backslash doubled and every double quote preceded by one backslash, so  *)
(* that a quote in a string without backslashes has exactly one backslash  *)
(* before it and un-escaping the name gives the canonical string back.     *)
(***************************************************************************)
\* The encoding: each byte on its own, '\' as '\\' and '"' as '\"'.
RECURSIVE Escaped(_)
Escaped(s) ==
    IF s = <<>> THEN <<>>
    ELSE (IF Head(s) \in {Ch.backslash, Ch.quote}
          THEN <<Ch.backslash, Head(s)>> ELSE <<Head(s)>>) \o Escaped(Tail(s))

\* The decoding of a string literal body: a backslash takes the next byte
\* literally; a bare quote or a trailing backslash is not part of a body.
RECURSIVE Unescaped(_)
Unescaped(e) ==
    IF e = <<>> THEN [ok |-> TRUE, s |-> <<>>]
    ELSE IF Head(e) = Ch.quote THEN [ok |-> FALSE]
    ELSE IF Head(e) = Ch.backslash
    THEN IF Len(e) = 1 THEN [ok |-> FALSE]
         ELSE LET r == Unescaped(Tail(Tail(e)))
              IN IF r.ok THEN [ok |-> TRUE, s |-> <<e[2]>> \o r.s] ELSE r
    ELSE LET r == Unescaped(Tail(e))
         IN IF r.ok THEN [ok |-> TRUE, s |-> <<Head(e)>> \o r.s] ELSE r

C22_NameEncoding ==
    op = "generateNodes" =>
        /\ ret[1].name = Escaped(token)
        /\ Unescaped(ret[1].name) = [ok |-> TRUE, s |-> token]

(***************************************************************************)
(* C23: in one flowchart render every module of GetAllModules() gets one   *)
(* identifier, N1, N2, ... in sorted module order, so distinct modules get *)
(* distinct identifiers; the output has one declaration line per module    *)
(* and one arrow line per edge, in edge order, and the identifiers of an   *)
(* arrow line are the declared ones of the edge's From and To.             *)
(***************************************************************************)
MermaidWritten == op = "MermaidRenderer.Render" /\ ret.err = NoError

GraphvizWritten == op = "GraphvizRenderer.Render" /\ ret.err = NoError

ParentLine(out, j) ==
    CHOOSE i \in 1..(j - 1) :
        /\ Depth(out, i) < Depth(out, j)
        /\ \A k \in (i + 1)..(j - 1) : Depth(out, k) >= Depth(out, j)

ChildPrefix(out, i) ==
    IF i = 1 THEN <<RootIndent>>
    ELSE Append(out[i].prefix,
                IF out[i].connector = Branch THEN Bar ELSE Indent)

LastSibling(out, j) ==
    \A k \in (j + 1)..Len(out) :
        Depth(out, k) = Depth(out, j) =>
            \E x \in (j + 1)..k : Depth(out, x) < Depth(out, j)

C25_Connectors ==
    TreeWritten =>
        LET out == ret.out
        IN /\ out[1] = [prefix |-> <<>>, connector |-> "",
                        text |-> String(dg.MainModule)]
           /\ \A j \in 2..Len(out) :
                  /\ Depth(out, j) >= 1
                  /\ Depth(out, j) = Depth(out, ParentLine(out, j)) + 1
                  /\ out[j].prefix = ChildPrefix(out, ParentLine(out, j))
                  /\ out[j].connector =
                         IF LastSibling(out, j) THEN Corner ELSE Branch

\* The root has two children, and the first of them a child of its own,
\* written behind the bar that leads to the second.
C25_Witness ==
    /\ TreeWritten
    /\ Len(ret.out) = 4
    /\ ret.out[2].connector = Branch
    /\ ret.out[3].prefix = <<RootIndent, Bar>>
    /\ ret.out[3].connector = Corner
    /\ ret.out[4].prefix = <<RootIndent>>
    /\ ret.out[4].connector = Corner

(***************************************************************************)
(* C26: under every expanded node of the tree the child lines are in       *)
(* ascending lexicographic order of canonical string, whatever the order   *)
(* in which the edges were added, and the lines of duplicate edges to one  *)
(* child are adjacent.                                                     *)
(***************************************************************************)
\* The number of edges from canonical string s to canonical string t.
EdgeCount(g, s, t) ==
    Cardinality({k \in EdgesFrom(g, s) : String(g.Dependencies[k].To) = t})

C26_SiblingOrder ==
    TreeWritten =>
        LET out == ret.out
        IN \A i \in DOMAIN out :
               LET kids == ChildLines(out, i)
               IN /\ \A j, k \in kids :
                         j < k => ~Less(out[k].text, out[j].text)
                  /\ \A j, k \in kids :
                         (j < k /\ out[j].text = out[k].text) =>
                             \A x \in kids :
                                 (j < x /\ x < k) => out[x].text = out[j].text
                  /\ FirstLineOf(out, i) =>
                         \A t \in GraphStrings(dg) :
                             Cardinality({j \in kids : out[j].text = t}) =
                                 EdgeCount(dg, out[i].text, t)

\* The edges from the root were added in descending order of their To, one
\* of them twice: the smaller child is written first, the other twice after
\* it.
C26_Witness ==
    /\ TreeWritten
    /\ Len(dg.Dependencies) = 3
    /\ \A k \in DOMAIN dg.Dependencies :
           String(dg.Dependencies[k].From) = String(dg.MainModule)
    /\ dg.Dependencies[1].To = dg.Dependencies[2].To
    /\ Less(String(dg.Dependencies[3].To), String(dg.Dependencies[1].To))
    /\ Len(ret.out) = 4
    /\ ret.out[2].text = String(dg.Dependencies[3].To)
    /\ ret.out[3].text = ret.out[4].text

(***************************************************************************)
(* C27: in one graph-description render two modules with different         *)
(* canonical strings never get the same sanitized identifier, so that an   *)
(* edge line refers to one declared node.                                  *)
(***************************************************************************)
C27_DistinctNodeIDs ==
    GraphvizWritten =>
        \A i, j \in DOMAIN ret.out :
            (i # j /\ ret.out[i].kind = "node" /\ ret.out[j].kind = "node")
                => ret.out[i].id # ret.out[j].id

(***************************************************************************)
(* C28: the document HTMLRenderer.Render writes is the template with its   *)
(* nodes placeholder replaced by the nodes fragment and its links          *)
(* placeholder by the links fragment, each fragment unmodified and there   *)
(* once, also when a canonical string holds the text of the links          *)
(* placeholder.                                                            *)
(***************************************************************************)
C28_FragmentsVerbatim ==
    HTMLWritten =>
        ret.out[1].doc =
            <<getHTMLTemplate[1]>> \o nodesJSON(ret.out[1].nodes)
                \o <<[t |-> "; const links = "]>>
                \o linksJSON(ret.out[1].links)
                \o <<getHTMLTemplate[Len(getHTMLTemplate)]>>

(***************************************************************************)
(* C29: one tree render writes 1 + (the number of edges whose From is      *)
(* reachable from the root) lines; every module reachable from the root    *)
(* along edges is written at least once, and no other module is written.   *)
(***************************************************************************)
\* The canonical strings reachable from those of S along edges.
RECURSIVE ReachFrom(_, _)
ReachFrom(g, S) ==
    LET next == S \cup {String(g.Dependencies[k].To) :
                           k \in {i \in DOMAIN g.Dependencies :
                                      String(g.Dependencies[i].From) \in S}}
    IN IF next = S THEN S ELSE ReachFrom(g, next)

Reachable(g) == ReachFrom(g, {String(g.MainModule)})

C29_Coverage ==
    TreeWritten =>
        /\ Len(ret.out) =
               1 + Cardinality({k \in DOMAIN dg.Dependencies :
                                   String(dg.Dependencies[k].From)
                                       \in Reachable(dg)})
        /\ {ret.out[i].text : i \in DOMAIN ret.out} = Reachable(dg)

\* Two of the three edges start at a reachable module, the third lies in a
\* component the root does not reach and is not written.
C29_Witness ==
    /\ TreeWritten
    /\ Len(dg.Dependencies) = 3
    /\ Len(ret.out) = 3
    /\ Cardinality(Reachable(dg)) = 2
    /\ Cardinality(GraphStrings(dg)) = 3
    /\ \E k \in DOMAIN dg.Dependencies :
           String(dg.Dependencies[k].From) \notin Reachable(dg)

(***************************************************************************)
(* C30: for an accepted token that does not end in '@' the canonical       *)
(* string of the parsed module is the token; a parsed module has a         *)
(* non-empty path and a version without '@'; so two different accepted     *)
(* tokens give the same canonical string only when one of them ends in     *)
(* '@'.                                                                    *)
(***************************************************************************)
EndsInAt(t) == t # <<>> /\ t[Len(t)] = Ch.at

\* The accepted tokens other than t whose module has the canonical string s.
SameString(t, s) ==
    {u \in Tokens \ {t} :
        parseModule(u).ok /\ String(parseModule(u).module) = s}

C30_RoundTrip ==
    (op = "parseModule" /\ ret.ok) =>
        /\ ~EndsInAt(token) => String(ret.module) = token
        /\ ret.module.Path # <<>>
        /\ AtPositions(ret.module.Version) = {}
        /\ \A u \in SameString(token, String(ret.module)) :
               EndsInAt(token) \/ EndsInAt(u)

\* A token with a version that reads back as itself, and that shares its
\* canonical string with the token that has one more '@' at its end.
C30_Witness ==
    /\ op = "parseModule"
    /\ ret.ok
    /\ ret.module.Version # <<>>
    /\ String(ret.module) = token
    /\ SameString(token, token) = {token \o <<Ch.at>>}

====
